---------------------------- MODULE Spec2Model ----------------------------
(***************************************************************************)
(* notion-sync: replication of job listings from a master database into   *)
(* six public databases (sync.js), retraction of closed listings          *)
(* (cleanup.js), the retrying store client (notion-client.js) and the     *)
(* routing / mapping helpers (utils.js).                                   *)
(*                                                                         *)
(* The Japanese string literals of the source are written in ASCII:       *)
(*   "douga-seisaku"   = '動画制作'      "design-seisaku" = 'デザイン制作' *)
(*   "level-1..3"      = 'レベル1..3'                                      *)
(*   "boshuuchuu"      = '募集中'        "boshuu-shuuryou" = '募集終了'    *)
(***************************************************************************)
EXTENDS Integers, Sequences, FiniteSets, TLC

VARIABLES
    master,      \* master database: job page -> its properties
    pages,       \* public databases: sequence of pages, page id = index
    inv,         \* per invocation of main(): position, locals, counters, and the
                 \* run's history (requests issued, results, store at its start)
    faults,      \* failures the store has reported so far (all runs)
    faultOps,    \* <<operation, error code>> of every failure so far
    runs,        \* runs started so far
    edits,       \* external edits of the master database so far
    budget,      \* how many runs, store failures and edits a behaviour may have
    lastSync,    \* result of the last completed forward sync
    quiet,       \* no edit and no cleanup since the last completed forward sync
    fnArgs,      \* stand-alone function checks: the arguments
    fnResult,    \* stand-alone function checks: the result
    rAttempt,    \* stand-alone withRetry: loop variable attempt
    rInvoked,    \* stand-alone withRetry: invocations of fn so far
    rErrors,     \* stand-alone withRetry: the errors fn raised so far
    rState       \* stand-alone withRetry: "running" | "returned" | "thrown" | "fellthrough"

vars == << master, pages, inv, faults, faultOps, runs, edits, budget, lastSync, quiet,
           fnArgs, fnResult, rAttempt, rInvoked, rErrors, rState >>

orchVars == << master, pages, inv, faults, faultOps, runs, edits, budget, lastSync, quiet >>

fnVars == << fnArgs, fnResult >>

retryVars == << rAttempt, rInvoked, rErrors, rState >>

--------------------------------------------------------------------------
(* JavaScript values *)

undefined == "<undefined>"
null == "<null>"

\* !v for the string-or-absent values the code tests
Falsy(v) == v \in {undefined, null, ""}

\* property-key coercion of obj[key]: String(undefined) = "undefined"
ToPropertyKey(v) == IF v = undefined THEN "undefined" ELSE IF v = null THEN "null" ELSE v

\* Members every object literal inherits from Object.prototype, with the
\* string a template literal makes of the inherited value.
ObjectPrototype ==
    [ constructor    |-> "function Object() { [native code] }",
      toString       |-> "function toString() { [native code] }",
      valueOf        |-> "function valueOf() { [native code] }",
      hasOwnProperty |-> "function hasOwnProperty() { [native code] }",
      __proto__      |-> "[object Object]" ]

\* obj[key] on an object literal: own property, else inherited, else undefined
GetProperty(obj, key) ==
    LET k == ToPropertyKey(key) IN
    IF k \in DOMAIN obj THEN obj[k]
    ELSE IF k \in DOMAIN ObjectPrototype THEN ObjectPrototype[k]
    ELSE undefined

--------------------------------------------------------------------------
(* utils.js: routing *)

VIDEO == "douga-seisaku"
DESIGN == "design-seisaku"
LEVEL1 == "level-1"
LEVEL2 == "level-2"
LEVEL3 == "level-3"

typeMapping == (VIDEO :> "video") @@ (DESIGN :> "design")

getTypePrefix_OwnOnly(jobType) ==
    IF ToPropertyKey(jobType) \in DOMAIN typeMapping
    THEN typeMapping[ToPropertyKey(jobType)] ELSE null

getTypePrefix(jobType) ==
    LET v == GetProperty(typeMapping, jobType) IN
    IF Falsy(v) THEN null ELSE v

\* the key `${typePrefix}_level<n>`
DbKey(typePrefix, n) == << typePrefix, n >>

getTargetDatabases_NoCascade(jobType, level) ==
    LET typePrefix == getTypePrefix(jobType) IN
    IF Falsy(typePrefix) THEN << >>
    ELSE CASE level = LEVEL1 -> << DbKey(typePrefix, 1) >>
           [] level = LEVEL2 -> << DbKey(typePrefix, 2) >>
           [] level = LEVEL3 -> << DbKey(typePrefix, 3) >>
           [] OTHER -> << >>

getTargetDatabases(jobType, level) ==
    LET typePrefix == getTypePrefix(jobType) IN
    IF Falsy(typePrefix) THEN << >>
    ELSE CASE level = LEVEL1 ->
                << DbKey(typePrefix, 1), DbKey(typePrefix, 2), DbKey(typePrefix, 3) >>
           [] level = LEVEL2 ->
                << DbKey(typePrefix, 2), DbKey(typePrefix, 3) >>
           [] level = LEVEL3 ->
                << DbKey(typePrefix, 3) >>
           [] OTHER -> << >>

\* loadDbConfig().public: the six configured public databases, in order
publicDbKeys ==
    << DbKey("video", 1), DbKey("video", 2), DbKey("video", 3),
       DbKey("design", 1), DbKey("design", 2), DbKey("design", 3) >>

PublicDbs == { publicDbKeys[i] : i \in DOMAIN publicDbKeys }

\* loadDbConfig(): the database ids the environment supplies, all present
\* (loadDbConfig throws when one is missing)
dbConfigPublic ==
    (DbKey("video", 1) :> "db:video_level1") @@ (DbKey("video", 2) :> "db:video_level2")
    @@ (DbKey("video", 3) :> "db:video_level3") @@ (DbKey("design", 1) :> "db:design_level1")
    @@ (DbKey("design", 2) :> "db:design_level2") @@ (DbKey("design", 3) :> "db:design_level3")

MasterDb == "db:master"

\* a lookup that falls back to the master database for an unknown key
publicDbId_MasterFallback(dbKey) == IF dbKey \in DOMAIN dbConfigPublic THEN dbConfigPublic[dbKey] ELSE MasterDb

\* dbConfig.public[dbKey]: the database id, or undefined for a key that is
\* no property of the configuration
publicDbId(dbKey) == IF dbKey \in DOMAIN dbConfigPublic THEN dbConfigPublic[dbKey] ELSE undefined

PublicDbIds == { dbConfigPublic[k] : k \in DOMAIN dbConfigPublic }

--------------------------------------------------------------------------
(* notion-client.js: withRetry *)

MAX_RETRIES == 3

OK == [code |-> "ok", status |-> 200]

\* the errors fn() may raise: code and HTTP status (0: the error has none)
RateLimited == [code |-> "rate_limited", status |-> 429]
Timeout == [code |-> "ETIMEDOUT", status |-> 0]
ConnReset == [code |-> "ECONNRESET", status |-> 0]
ConnRefused == [code |-> "ECONNREFUSED", status |-> 0]
ServerError == [code |-> "internal_server_error", status |-> 500]
Unavailable == [code |-> "service_unavailable", status |-> 503]
Invalid == [code |-> "validation_error", status |-> 400]
NotFound == [code |-> "object_not_found", status |-> 404]

Errors == { RateLimited, Timeout, ConnReset, ConnRefused, ServerError,
            Unavailable, Invalid, NotFound }

retryableCodes == { "ECONNREFUSED", "ECONNRESET", "ETIMEDOUT", "rate_limited" }

isRetryable_Always(error) == TRUE

isRetryable(error) ==
    \/ error.code \in retryableCodes
    \/ error.status >= 500

\* One pass of withRetry's loop body with fn() ending in `outcome`:
\*   "return"      fn succeeded: return its result
\*   "retry"       continue with attempt + 1
\*   "throw"       throw the error to the caller
\*   "fallthrough" continue at the last attempt: the loop ends and the
\*                 function returns undefined
withRetry_RateLimitUncounted(att, outcome) ==
    IF outcome = OK THEN "return"
    ELSE IF outcome.code = "rate_limited" THEN "retry"
    ELSE IF att < MAX_RETRIES /\ isRetryable(outcome) THEN "retry"
    ELSE "throw"

withRetry(att, outcome) ==
    IF outcome = OK THEN "return"
    ELSE IF outcome.code = "rate_limited"
         THEN IF att + 1 <= MAX_RETRIES THEN "retry" ELSE "fallthrough"
    ELSE IF att < MAX_RETRIES /\ isRetryable(outcome) THEN "retry"
    ELSE "throw"

API_INTERVAL_MS == 350

\* (error.headers?.['retry-after'] || 60): the seconds the store advises,
\* 60 when the error carries no such header
retryAfter(error) ==
    IF "retryAfter" \in DOMAIN error THEN (IF error.retryAfter = 0 THEN 60 ELSE error.retryAfter)
    ELSE 60

\* The milliseconds withRetry sleeps after fn() ended in `outcome` at
\* attempt att, before it returns, retries or throws: the interval after a
\* success, the advised wait after a rate limit, the backoff before a
\* retry, nothing before a throw.
sleepAfter(att, outcome) ==
    IF outcome = OK THEN API_INTERVAL_MS
    ELSE IF outcome.code = "rate_limited" THEN retryAfter(outcome) * 1000
    ELSE IF att < MAX_RETRIES /\ isRetryable(outcome) THEN (2 ^ att) * 1000
    ELSE 0

--------------------------------------------------------------------------
(* The store: master database and public databases *)

MaxRuns == 2
MaxFaults == 1
MaxEdits == 1

Procs == {1, 2}
Jobs == {1, 2}

OPEN == "boshuuchuu"
CLOSED == "boshuu-shuuryou"

NoDb == "-"

\* A master page as the orchestrators read it: 'ステータス', '案件タイプ'
\* and 'レベル' select names (undefined when the property or its selection
\* is missing) and '案件ID'.unique_id.number (hasId FALSE when missing).
Job(st, ty, lv, has) == [status |-> st, jobType |-> ty, level |-> lv, hasId |-> has]

\* job.properties['案件ID']?.unique_id?.number: the store numbers the pages
\* of a database 0, 1, ... (unique_id), so the first page has number 0
masterIdOf(j) == j - 1

Routable ==
    { Job(OPEN, VIDEO, LEVEL1, TRUE), Job(OPEN, VIDEO, LEVEL2, TRUE),
      Job(OPEN, DESIGN, LEVEL1, TRUE), Job(OPEN, DESIGN, LEVEL3, TRUE) }

Defective ==
    { Job(OPEN, undefined, LEVEL1, TRUE), Job(OPEN, VIDEO, undefined, TRUE),
      Job(OPEN, VIDEO, LEVEL1, FALSE),
      Job(OPEN, "sonota", LEVEL1, TRUE), Job(OPEN, "constructor", LEVEL1, TRUE),
      Job(OPEN, DESIGN, "level-4", TRUE) }

FirstJobs == Routable \cup Defective \cup { Job(CLOSED, VIDEO, LEVEL2, TRUE) }

SecondJobs == { Job(OPEN, DESIGN, LEVEL2, TRUE), Job(CLOSED, VIDEO, LEVEL1, FALSE) }

\* what an external edit of a master page may set it to
EditedJobs ==
    { Job(OPEN, DESIGN, LEVEL1, TRUE), Job(CLOSED, DESIGN, LEVEL1, TRUE),
      Job(OPEN, VIDEO, LEVEL3, TRUE), Job(CLOSED, VIDEO, LEVEL3, TRUE) }

Page(db, mid) == [db |-> db, masterId |-> mid, archived |-> FALSE]

RECURSIVE MatchingIds(_, _, _, _, _)
\* ids i..Len(ps) of the pages of db with number mid, in order; archived
\* pages only when withArchived
MatchingIds(ps, i, db, mid, withArchived) ==
    IF i > Len(ps) THEN << >>
    ELSE (IF ps[i].db = db /\ ps[i].masterId = mid /\ (withArchived \/ ~ps[i].archived)
          THEN << i >> ELSE << >>) \o MatchingIds(ps, i + 1, db, mid, withArchived)

\* notion.databases.query on a public database, filter マスター案件ID = mid:
\* the non-archived pages of the database with that number
queryPublic_IncludingArchived(db, mid) == MatchingIds(pages, 1, db, mid, TRUE)

\* a filter on the page's position in the listing instead of its 案件ID
queryPublic_OtherNumber(db, mid) == MatchingIds(pages, 1, db, mid + 1, FALSE)

queryPublic(db, mid) == MatchingIds(pages, 1, db, mid, FALSE)

RECURSIVE SelectJobs(_, _)
\* notion.databases.query on the master database, filter ステータス = st
SelectJobs(j, st) ==
    IF j \notin Jobs THEN << >>
    ELSE (IF master[j].status = st
          THEN << [page |-> j] @@ master[j] >> ELSE << >>) \o SelectJobs(j + 1, st)

\* a listing that ignores the status filter
queryMaster_AnyStatus(st) == [j \in 1..Cardinality(Jobs) |-> [page |-> j] @@ master[j]]

queryMaster(st) == SelectJobs(1, st)

--------------------------------------------------------------------------
(* utils.js: mapProperties, as far as the orchestrator depends on it *)

\* mapped['マスター案件ID'] = { number: masterIdProp.unique_id.number }
mapMasterId_Constant(job) == [number |-> 0]

mapMasterId(job) == [number |-> masterIdOf(job.page)]

--------------------------------------------------------------------------
(* One invocation of main() *)

Fresh ==
    [ pc |-> "idle", kind |-> "none", jobs |-> << >>, idx |-> 0,
      targets |-> << >>, t |-> 0, found |-> << >>, attempt |-> 1,
      properties |-> [number |-> 0],
      created |-> 0, skipped |-> 0, error |-> 0, archived |-> 0,
      exitCode |-> 0, calls |-> << >>, outcomes |-> << >>,
      faults |-> << >>, prev |-> [valid |-> FALSE], before |-> << >>, masterAt |-> << >>,
      config |-> "complete", since |-> -1 ]

NoSync == [valid |-> FALSE]

\* the errors the store reports to the orchestrators: one per class of
\* withRetry (rate limit, retryable, not retryable)
OrchErrors == { RateLimited, Timeout, Invalid }

\* What one request can end in: the answer, or an error; a create or an
\* archive that times out may or may not have been applied by the store.
Outcomes(op) ==
    { [res |-> OK, applied |-> TRUE] }
    \cup { [res |-> e, applied |-> FALSE] : e \in OrchErrors }
    \cup { [res |-> Timeout, applied |-> TRUE] : x \in IF op \in {"create", "archive"} THEN {1} ELSE {} }

\* mid -1, page 0, job 0: the request has none
Request(op, db, mid, page, job, att) ==
    [op |-> op, db |-> db, mid |-> mid, page |-> page, job |-> job, att |-> att]

Outcome(job, db, what) == [job |-> job, db |-> db, what |-> what]

Idle(p) == inv[p].pc \in {"idle", "done"}

\* the bookkeeping of one request: the request is recorded with the time
\* slept since the request before it completed (-1: it is the run's first)
\* and with what it ended in, a failure counted, and withRetry sleeps
Issue(r, req, o) ==
    [ r EXCEPT !.calls = Append(@, req @@ [gap |-> r.since, res |-> o.res.code]),
               !.since = sleepAfter(req.att, o.res),
               !.faults = IF o.res = OK THEN @ ELSE Append(@, << req.op, o.res.code >>) ]

Count(o) ==
    /\ o.res # OK => faults < budget.faults
    /\ faults' = IF o.res = OK THEN faults ELSE faults + 1

CountOps(op, o) ==
    faultOps' = IF o.res = OK THEN faultOps ELSE faultOps \cup { << op, o.res.code >> }

Set(p, r) == inv' = [inv EXCEPT ![p] = r]

CurJob(r) == r.jobs[r.idx]

\* the summary a completed forward sync leaves behind
Summary(r) ==
    [ valid |-> TRUE, exitCode |-> r.exitCode, error |-> r.error,
      faulty |-> r.faults # << >>,
      created |-> { << r.outcomes[i].job, r.outcomes[i].db >> :
                      i \in { k \in DOMAIN r.outcomes : r.outcomes[k].what = "created" } } ]

Finish(r) ==
    IF r.pc = "done" /\ r.kind = "sync"
    THEN lastSync' = Summary(r) /\ quiet' = TRUE
    ELSE UNCHANGED << lastSync, quiet >>

--------------------------------------------------------------------------
(* sync.js: main *)

\* masterId = job.properties['案件ID']?.unique_id?.number
masterIdRead(job) == IF job.hasId THEN [present |-> TRUE, number |-> masterIdOf(job.page)]
                     ELSE [present |-> FALSE]

\* a validation that tests !masterId instead of masterId == null
dataInvalid_ZeroIsMissing(job) ==
    \/ Falsy(job.jobType)
    \/ Falsy(job.level)
    \/ ~masterIdRead(job).present
    \/ masterIdRead(job).number = 0

\* !jobType || !level || masterId == null
dataInvalid(job) ==
    \/ Falsy(job.jobType)
    \/ Falsy(job.level)
    \/ ~masterIdRead(job).present

\* What the environment supplies: NOTION_API_KEY and the seven database
\* ids, or not all of them.
Environments == { "complete", "no-api-key", "no-database-id" }

\* main() up to the try block: process.exit(1) without the key; without a
\* database id loadDbConfig throws, main's promise is rejected and the
\* process ends with exit code 1.
Preflight(r, env) ==
    IF env = "complete" THEN [r EXCEPT !.config = env, !.pc = "list"]
    ELSE [r EXCEPT !.config = env, !.pc = "done", !.exitCode = 1]

SyncStart(p) ==
    /\ Idle(p)
    /\ runs < budget.runs
    /\ runs' = runs + 1
    /\ \E env \in Environments :
         LET r == Preflight([Fresh EXCEPT !.kind = "sync", !.before = pages,
                                         !.masterAt = master,
                                         !.prev = IF quiet THEN lastSync ELSE NoSync], env)
         IN Set(p, r) /\ Finish(r)
    /\ UNCHANGED << master, pages, faults, faultOps, edits, budget, fnVars, retryVars >>

\* activeJobs = await queryDatabase(dbConfig.master, ステータス = 募集中)
SyncList(p) ==
    /\ inv[p].pc = "list" /\ inv[p].kind = "sync"
    /\ \E o \in Outcomes("query") :
         LET r == Issue(inv[p], Request("query", MasterDb, -1, 0, 0, inv[p].attempt), o)
             step == withRetry(r.attempt, o.res)
             activeJobs == queryMaster(OPEN)
             r2 == CASE step = "retry" -> [r EXCEPT !.attempt = @ + 1]
                     [] step = "return" ->
                          IF Len(activeJobs) = 0 THEN [r EXCEPT !.pc = "done"]
                          ELSE [r EXCEPT !.jobs = activeJobs, !.idx = 1, !.pc = "job"]
                     [] OTHER -> [r EXCEPT !.pc = "done", !.exitCode = 1]
         IN /\ Count(o) /\ CountOps("list", o) /\ Set(p, r2) /\ Finish(r2)
    /\ UNCHANGED << master, pages, runs, edits, budget, fnVars, retryVars >>

\* head of `for (const job of activeJobs)`: validation and routing
SyncJob(p) ==
    /\ inv[p].pc = "job" /\ inv[p].kind = "sync"
    /\ LET r == inv[p] IN
       IF r.idx > Len(r.jobs)
       THEN LET r2 == [r EXCEPT !.pc = "done"] IN Set(p, r2) /\ Finish(r2)
       ELSE LET job == CurJob(r)
                targetDbKeys == getTargetDatabases(job.jobType, job.level)
            IN /\ IF dataInvalid(job)
                  THEN Set(p, [r EXCEPT !.error = @ + 1, !.idx = @ + 1,
                                        !.outcomes = Append(@, Outcome(job.page, NoDb, "invalid"))])
                  ELSE IF Len(targetDbKeys) = 0
                  THEN Set(p, [r EXCEPT !.skipped = @ + 1, !.idx = @ + 1,
                                        !.outcomes = Append(@, Outcome(job.page, NoDb, "unrouted"))])
                  ELSE Set(p, [r EXCEPT !.targets = targetDbKeys,
                                        !.properties = mapMasterId(job),
                                        !.pc = "blocks", !.attempt = 1])
               /\ UNCHANGED << lastSync, quiet >>
    /\ UNCHANGED << master, pages, faults, faultOps, runs, edits, budget, fnVars, retryVars >>

\* blocks = await getPageBlocks(job.id), failure absorbed by the inner try
SyncBlocks(p) ==
    /\ inv[p].pc = "blocks" /\ inv[p].kind = "sync"
    /\ \E o \in Outcomes("blocks") :
         LET job == CurJob(inv[p])
             r == Issue(inv[p], Request("blocks", MasterDb, -1, 0, job.page, inv[p].attempt), o)
             step == withRetry(r.attempt, o.res)
             r2 == CASE step = "retry" -> [r EXCEPT !.attempt = @ + 1]
                     [] OTHER -> [r EXCEPT !.pc = "target", !.t = 1]
         IN /\ Count(o) /\ CountOps("blocks", o) /\ Set(p, r2)
    /\ UNCHANGED << master, pages, runs, edits, lastSync, quiet, budget, fnVars, retryVars >>

\* head of `for (const dbKey of targetDbKeys)`
SyncTarget(p) ==
    /\ inv[p].pc = "target" /\ inv[p].kind = "sync"
    /\ LET r == inv[p] IN
       IF r.t > Len(r.targets)
       THEN Set(p, [r EXCEPT !.idx = @ + 1, !.pc = "job"])
       ELSE LET targetDbId == publicDbId(r.targets[r.t]) IN
            IF Falsy(targetDbId)
            THEN Set(p, [r EXCEPT !.error = @ + 1, !.t = @ + 1,
                                  !.outcomes = Append(@, Outcome(CurJob(r).page, r.targets[r.t], "unconfigured"))])
            ELSE Set(p, [r EXCEPT !.pc = "exists", !.attempt = 1])
    /\ UNCHANGED << master, pages, faults, faultOps, runs, edits, lastSync, quiet, budget, fnVars, retryVars >>

\* an error of the target's try block that reaches main's outer catch
targetFailed_Abort(r, j, db) ==
    [r EXCEPT !.error = @ + 1, !.pc = "done", !.exitCode = 1,
              !.outcomes = Append(@, Outcome(j, db, "error"))]

\* a catch that logs the error and goes on without counting it
targetFailed_Uncounted(r, j, db) ==
    [r EXCEPT !.t = @ + 1, !.pc = "target",
              !.outcomes = Append(@, Outcome(j, db, "error"))]

\* catch (err) { log('ERROR', ...); errorCount++; } of the target's try
\* block: the error is counted and the loop goes on to the next target
targetFailed(r, j, db) ==
    [r EXCEPT !.error = @ + 1, !.t = @ + 1, !.pc = "target",
              !.outcomes = Append(@, Outcome(j, db, "error"))]

\* existing = await queryDatabase(targetDbId, マスター案件ID = masterId)
SyncExists(p) ==
    /\ inv[p].pc = "exists" /\ inv[p].kind = "sync"
    /\ \E o \in Outcomes("query") :
         LET job == CurJob(inv[p])
             db == publicDbId(inv[p].targets[inv[p].t])
             masterId == masterIdOf(job.page)
             r == Issue(inv[p], Request("query", db, masterId, 0, job.page, inv[p].attempt), o)
             step == withRetry(r.attempt, o.res)
             existing == queryPublic(db, masterId)
             r2 == CASE step = "retry" -> [r EXCEPT !.attempt = @ + 1]
                     [] step = "return" ->
                          IF Len(existing) > 0
                          THEN [r EXCEPT !.skipped = @ + 1, !.t = @ + 1, !.pc = "target",
                                         !.outcomes = Append(@, Outcome(job.page, db, "skipped"))]
                          ELSE [r EXCEPT !.pc = "create", !.attempt = 1]
                     [] OTHER -> targetFailed(r, job.page, db)
         IN /\ Count(o) /\ CountOps("exists", o) /\ Set(p, r2)
    /\ UNCHANGED << master, pages, runs, edits, lastSync, quiet, budget, fnVars, retryVars >>

\* created = await createPage(targetDbId, properties, children)
SyncCreate(p) ==
    /\ inv[p].pc = "create" /\ inv[p].kind = "sync"
    /\ \E o \in Outcomes("create") :
         LET job == CurJob(inv[p])
             db == publicDbId(inv[p].targets[inv[p].t])
             number == inv[p].properties.number
             r == Issue(inv[p], Request("create", db, number, 0, job.page, inv[p].attempt), o)
             step == withRetry(r.attempt, o.res)
             r2 == CASE step = "retry" -> [r EXCEPT !.attempt = @ + 1]
                     [] step = "return" ->
                          [r EXCEPT !.created = @ + 1, !.t = @ + 1, !.pc = "target",
                                    !.outcomes = Append(@, Outcome(job.page, db, "created"))]
                     [] OTHER -> targetFailed(r, job.page, db)
         IN /\ Count(o) /\ CountOps("create", o) /\ Set(p, r2)
            /\ pages' = IF o.applied THEN Append(pages, Page(db, number)) ELSE pages
    /\ UNCHANGED << master, runs, edits, lastSync, quiet, budget, fnVars, retryVars >>

--------------------------------------------------------------------------
(* cleanup.js: main *)

\* a cleanup that searches the video databases only
publicDbEntries_VideoOnly == SubSeq(publicDbKeys, 1, 3)

\* publicDbEntries = Object.entries(dbConfig.public): all six, in order
publicDbEntries == publicDbKeys

CleanupStart(p) ==
    /\ Idle(p)
    /\ runs < budget.runs
    /\ runs' = runs + 1
    /\ quiet' = FALSE
    /\ \E env \in Environments :
         Set(p, Preflight([Fresh EXCEPT !.kind = "cleanup", !.before = pages,
                                        !.masterAt = master], env))
    /\ UNCHANGED << master, pages, faults, faultOps, edits, lastSync, budget, fnVars, retryVars >>

\* closedJobs = await queryDatabase(dbConfig.master, ステータス = 募集終了)
CleanupList(p) ==
    /\ inv[p].pc = "list" /\ inv[p].kind = "cleanup"
    /\ \E o \in Outcomes("query") :
         LET r == Issue(inv[p], Request("query", MasterDb, -1, 0, 0, inv[p].attempt), o)
             step == withRetry(r.attempt, o.res)
             closedJobs == queryMaster(CLOSED)
             r2 == CASE step = "retry" -> [r EXCEPT !.attempt = @ + 1]
                     [] step = "return" ->
                          IF Len(closedJobs) = 0 THEN [r EXCEPT !.pc = "done"]
                          ELSE [r EXCEPT !.jobs = closedJobs, !.idx = 1, !.pc = "job",
                                         !.targets = publicDbEntries]
                     [] OTHER -> [r EXCEPT !.pc = "done", !.exitCode = 1]
         IN /\ Count(o) /\ CountOps("list", o) /\ Set(p, r2)
    /\ UNCHANGED << master, pages, runs, edits, lastSync, quiet, budget, fnVars, retryVars >>

\* head of `for (const job of closedJobs)`
CleanupJob(p) ==
    /\ inv[p].pc = "job" /\ inv[p].kind = "cleanup"
    /\ LET r == inv[p] IN
       IF r.idx > Len(r.jobs) THEN Set(p, [r EXCEPT !.pc = "done"])
       ELSE IF ~masterIdRead(CurJob(r)).present
       THEN Set(p, [r EXCEPT !.error = @ + 1, !.idx = @ + 1,
                             !.outcomes = Append(@, Outcome(CurJob(r).page, NoDb, "invalid"))])
       ELSE Set(p, [r EXCEPT !.pc = "target", !.t = 1])
    /\ UNCHANGED << master, pages, faults, faultOps, runs, edits, lastSync, quiet, budget, fnVars, retryVars >>

\* head of `for (const [dbKey, dbId] of publicDbEntries)`
CleanupTarget(p) ==
    /\ inv[p].pc = "target" /\ inv[p].kind = "cleanup"
    /\ LET r == inv[p] IN
       IF r.t > Len(r.targets)
       THEN Set(p, [r EXCEPT !.idx = @ + 1, !.pc = "job"])
       ELSE IF Falsy(publicDbId(r.targets[r.t]))
       THEN Set(p, [r EXCEPT !.t = @ + 1])
       ELSE Set(p, [r EXCEPT !.pc = "exists", !.attempt = 1])
    /\ UNCHANGED << master, pages, faults, faultOps, runs, edits, lastSync, quiet, budget, fnVars, retryVars >>

\* found = await queryDatabase(dbId, マスター案件ID = masterId)
CleanupFind(p) ==
    /\ inv[p].pc = "exists" /\ inv[p].kind = "cleanup"
    /\ \E o \in Outcomes("query") :
         LET job == CurJob(inv[p])
             db == publicDbId(inv[p].targets[inv[p].t])
             masterId == masterIdOf(job.page)
             r == Issue(inv[p], Request("query", db, masterId, 0, job.page, inv[p].attempt), o)
             step == withRetry(r.attempt, o.res)
             matches == queryPublic(db, masterId)
             r2 == CASE step = "retry" -> [r EXCEPT !.attempt = @ + 1]
                     [] step = "return" ->
                          IF Len(matches) = 0
                          THEN [r EXCEPT !.t = @ + 1, !.pc = "target"]
                          ELSE [r EXCEPT !.found = matches, !.pc = "archive", !.attempt = 1]
                     [] OTHER -> [r EXCEPT !.error = @ + 1, !.t = @ + 1, !.pc = "target",
                                           !.outcomes = Append(@, Outcome(job.page, db, "error"))]
         IN /\ Count(o) /\ CountOps("find", o) /\ Set(p, r2)
    /\ UNCHANGED << master, pages, runs, edits, lastSync, quiet, budget, fnVars, retryVars >>

\* `for (const page of found) { await archivePage(page.id); archivedCount++ }`
CleanupArchive(p) ==
    /\ inv[p].pc = "archive" /\ inv[p].kind = "cleanup"
    /\ \E o \in Outcomes("archive") :
         LET job == CurJob(inv[p])
             db == publicDbId(inv[p].targets[inv[p].t])
             page == Head(inv[p].found)
             r == Issue(inv[p], Request("archive", db, -1, page, job.page, inv[p].attempt), o)
             step == withRetry(r.attempt, o.res)
             next == [r EXCEPT !.archived = @ + 1, !.found = Tail(@), !.attempt = 1,
                               !.outcomes = Append(@, Outcome(job.page, db, "archived"))]
             r2 == CASE step = "retry" -> [r EXCEPT !.attempt = @ + 1]
                     [] step \in {"return", "fallthrough"} ->
                          IF Len(next.found) = 0
                          THEN [next EXCEPT !.t = @ + 1, !.pc = "target"]
                          ELSE next
                     [] OTHER -> [r EXCEPT !.error = @ + 1, !.t = @ + 1, !.pc = "target",
                                           !.found = << >>,
                                           !.outcomes = Append(@, Outcome(job.page, db, "error"))]
         IN /\ Count(o) /\ CountOps("archive", o) /\ Set(p, r2)
            /\ pages' = IF o.applied THEN [pages EXCEPT ![page].archived = TRUE] ELSE pages
    /\ UNCHANGED << master, runs, edits, lastSync, quiet, budget, fnVars, retryVars >>

--------------------------------------------------------------------------
(* The master database is edited by its owners, outside the two programs *)

Edit(j) ==
    /\ \A p \in Procs : Idle(p)
    /\ edits < budget.edits
    /\ edits' = edits + 1
    /\ quiet' = FALSE
    /\ \E e \in EditedJobs :
         /\ [e EXCEPT !.hasId = master[j].hasId] # master[j]
         /\ master' = [master EXCEPT ![j] = [e EXCEPT !.hasId = master[j].hasId]]
    /\ UNCHANGED << pages, inv, faults, faultOps, runs, lastSync, budget, fnVars, retryVars >>

--------------------------------------------------------------------------
(* utils.js: mapProperties and buildPropertyValue                          *)
(*                                                                         *)
(* JSON values are tagged: [t |-> "null"], [t |-> "number", v |-> 3],      *)
(* [t |-> "array", v |-> <<...>>], [t |-> "object", v |-> key :> value].   *)
(* Property names: "anken-mei" = '案件名', "anken-shousai" = '案件詳細',    *)
(* "anken-ID" = '案件ID', "master-anken-ID" = 'マスター案件ID',             *)
(* "status" = 'ステータス', "category" = 'カテゴリ', "tags" = 'タグ'.       *)

JNull == [t |-> "null"]
JUndefined == [t |-> "undefined"]
JNum(n) == [t |-> "number", v |-> n]
JStr(s) == [t |-> "string", v |-> s]
JBool(b) == [t |-> "boolean", v |-> b]
JList(seq) == [t |-> "array", v |-> seq]
JObj(f) == [t |-> "object", v |-> f]

\* !!v
Truthy(j) ==
    /\ j.t \notin {"null", "undefined"}
    /\ ~(j.t = "number" /\ j.v = 0)
    /\ ~(j.t = "string" /\ j.v = "")
    /\ ~(j.t = "boolean" /\ j.v = FALSE)

\* a || b
OrElse(a, b) == IF Truthy(a) THEN a ELSE b

\* j[key] for an object (own, else inherited from Object.prototype, else
\* undefined); undefined for the non-objects the code reads properties of
Get(j, key) ==
    IF j.t # "object" THEN JUndefined
    ELSE IF key \in DOMAIN j.v THEN j.v[key]
    ELSE IF key \in DOMAIN ObjectPrototype THEN [t |-> "function", v |-> ObjectPrototype[key]]
    ELSE JUndefined

TITLE_FIELD == "anken-mei"
DETAIL_FIELD == "anken-shousai"
ID_FIELD == "anken-ID"
BACKREF_FIELD == "master-anken-ID"

\* (prop.multi_select || []).map((item) => ({ name: item.name }))
NamesOf(list) == JList([i \in DOMAIN list.v |-> JObj("name" :> Get(list.v[i], "name"))])

\* select and multi_select copied as the store returned them, ids and
\* colours included
buildPropertyValue_RawItems(prop) ==
    LET ty == Get(prop, "type") IN
    IF ty = JStr("multi_select")
    THEN JObj("multi_select" :> OrElse(Get(prop, "multi_select"), JList(<< >>)))
    ELSE IF ty = JStr("select")
    THEN JObj("select" :> Get(prop, "select"))
    ELSE IF ty.t = "string" /\ ty.v \in {"number", "date", "url", "checkbox", "email", "phone_number"}
    THEN JObj(ty.v :> Get(prop, ty.v))
    ELSE JObj("rich_text" :> OrElse(Get(prop, "rich_text"), JList(<< >>)))

buildPropertyValue(prop) ==
    LET ty == Get(prop, "type") IN
    CASE ty = JStr("rich_text") ->
             JObj("rich_text" :> OrElse(Get(prop, "rich_text"), JList(<< >>)))
      [] ty = JStr("number") -> JObj("number" :> Get(prop, "number"))
      [] ty = JStr("select") ->
             IF Truthy(Get(prop, "select"))
             THEN JObj("select" :> JObj("name" :> Get(Get(prop, "select"), "name")))
             ELSE JObj("select" :> JNull)
      [] ty = JStr("multi_select") ->
             JObj("multi_select" :> NamesOf(OrElse(Get(prop, "multi_select"), JList(<< >>))))
      [] ty = JStr("date") -> JObj("date" :> Get(prop, "date"))
      [] ty = JStr("url") -> JObj("url" :> Get(prop, "url"))
      [] ty = JStr("checkbox") -> JObj("checkbox" :> Get(prop, "checkbox"))
      [] ty = JStr("email") -> JObj("email" :> Get(prop, "email"))
      [] ty = JStr("phone_number") -> JObj("phone_number" :> Get(prop, "phone_number"))
      [] OTHER -> JObj("rich_text" :> OrElse(Get(prop, "rich_text"), JList(<< >>)))

mapProperties(page, copyFields) ==
    LET sourceProps == Get(page, "properties")
        listed == { copyFields[i] : i \in DOMAIN copyFields } \ {DETAIL_FIELD, TITLE_FIELD}
        copied == { f \in listed : Truthy(Get(sourceProps, f)) }
        fields == [f \in copied |-> buildPropertyValue(Get(sourceProps, f))]
        titleProp == Get(sourceProps, TITLE_FIELD)
        withTitle ==
            IF Truthy(titleProp)
            THEN (TITLE_FIELD :> JObj("title" :> OrElse(Get(titleProp, "title"), JList(<< >>)))) @@ fields
            ELSE fields
        masterIdProp == Get(sourceProps, ID_FIELD)
        mapped ==
            IF Truthy(masterIdProp) /\ Truthy(Get(masterIdProp, "unique_id"))
            THEN (BACKREF_FIELD :> JObj("number" :> Get(Get(masterIdProp, "unique_id"), "number")))
                 @@ withTitle
            ELSE withTitle
    IN JObj(mapped)

\* a property as the store returns it: { id, type, [type]: value }
Prop(ty, value) == JObj(("id" :> JStr("%3Fx")) @@ ("type" :> JStr(ty)) @@ (ty :> value))

Span(text) == JObj(("type" :> JStr("text")) @@ ("plain_text" :> JStr(text)))

Option(name) == JObj(("id" :> JStr("opt")) @@ ("name" :> JStr(name)) @@ ("color" :> JStr("blue")))

\* the properties a master page may carry in one field: each type the
\* mapping knows, with and without a value, and a type it does not know
FieldValues ==
    { Prop("rich_text", JList(<< Span("10h") >>)), Prop("rich_text", JList(<< >>)),
      Prop("number", JNum(50000)), Prop("number", JNum(0)), Prop("number", JNull),
      Prop("select", Option("tanpatsu")), Prop("select", JNull),
      Prop("multi_select", JList(<< Option("YouTube"), Option("yokogata") >>)),
      Prop("multi_select", JList(<< >>)),
      Prop("date", JObj(("start" :> JStr("2026-03-01")) @@ ("end" :> JNull))),
      Prop("date", JNull),
      Prop("url", JStr("https://example.com/form")), Prop("url", JNull),
      Prop("checkbox", JBool(TRUE)), Prop("checkbox", JBool(FALSE)),
      Prop("email", JStr("a@example.com")), Prop("email", JNull),
      Prop("phone_number", JStr("03-0000-0000")), Prop("phone_number", JNull),
      Prop("people", JList(<< JObj("id" :> JStr("user")) >>)) }

TitleValues == { Prop("title", JList(<< Span("test") >>)), Prop("title", JList(<< >>)) }

IdValues ==
    { Prop("unique_id", JObj(("prefix" :> JNull) @@ ("number" :> JNum(n)))) : n \in {0, 1001} }

\* master pages: status and 'タグ' always there; title, 案件ID and
\* 'カテゴリ' there or not
SourcePages ==
    LET fixed == ("status" :> Prop("status", Option(OPEN)))
                 @@ ("tags" :> Prop("multi_select", JList(<< Option("YouTube") >>)))
        Optional(name, values) == { << >> } \cup { name :> v : v \in values }
    IN { JObj("properties" :> JObj(a @@ b @@ c @@ fixed)) :
           a \in Optional(TITLE_FIELD, TitleValues),
           b \in Optional(ID_FIELD, IdValues),
           c \in Optional("category", FieldValues) }

CopyFieldLists ==
    { << >>, << "category" >>, << TITLE_FIELD, "category", "tags", DETAIL_FIELD >>,
      << "tags", "houshuu", "category" >>, << TITLE_FIELD, DETAIL_FIELD >> }

CallMapProperties ==
    /\ fnArgs.fn = "mapProperties"
    /\ ~fnResult.done
    /\ fnResult' = [done |-> TRUE, value |-> mapProperties(fnArgs.page, fnArgs.copyFields)]
    /\ UNCHANGED << fnArgs, orchVars, retryVars >>

--------------------------------------------------------------------------
(* sync.js: sanitizeBlock *)

\* the attributes sanitizeBlock deletes
ReadOnlyKeys ==
    { "id", "created_time", "last_edited_time", "created_by", "last_edited_by",
      "has_children", "parent", "archived" }

NoMembers == << >>

\* the payload's members without the deleted ones
Without(content, keys) == [k \in DOMAIN content.v \ keys |-> content.v[k]]

\* a sanitizer that leaves has_children, parent and archived in place
sanitizeBlock_TimestampsOnly(block) ==
    LET type == Get(block, "type")
        key == IF type.t = "string" THEN type.v ELSE "undefined"
        content == Get(block, key)
    IN IF ~Truthy(content) THEN JObj(("type" :> type) @@ (key :> JObj(NoMembers)))
       ELSE JObj(("type" :> type) @@
                 (key :> JObj(Without(content, ReadOnlyKeys \ {"has_children", "parent", "archived"}))))

\* const { type } = block; const content = block[type]; ...
\* return { type, [type]: sanitized }
sanitizeBlock(block) ==
    LET type == Get(block, "type")
        key == IF type.t = "string" THEN type.v ELSE "undefined"
        content == Get(block, key)
    IN IF ~Truthy(content) THEN JObj(("type" :> type) @@ (key :> JObj(NoMembers)))
       ELSE JObj(("type" :> type) @@ (key :> JObj(Without(content, ReadOnlyKeys))))

\* what the store adds to every block it returns
ServerAssigned ==
    ("object" :> JStr("block")) @@ ("id" :> JStr("b-1"))
    @@ ("parent" :> JObj(("type" :> JStr("page_id")) @@ ("page_id" :> JStr("p-1"))))
    @@ ("created_time" :> JStr("2026-01-01T00:00:00.000Z"))
    @@ ("last_edited_time" :> JStr("2026-01-02T00:00:00.000Z"))
    @@ ("created_by" :> JObj(("object" :> JStr("user")) @@ ("id" :> JStr("u-1"))))
    @@ ("last_edited_by" :> JObj(("object" :> JStr("user")) @@ ("id" :> JStr("u-1"))))
    @@ ("has_children" :> JBool(FALSE)) @@ ("archived" :> JBool(FALSE))

\* a rich text span that mentions another page, by that page's id
Mention == JObj(("type" :> JStr("mention")) @@ ("plain_text" :> JStr("Untitled"))
                @@ ("mention" :> JObj(("type" :> JStr("page"))
                                      @@ ("page" :> JObj("id" :> JStr("p-2"))))))

BlockKinds == { "paragraph", "heading_1", "to_do" }

\* payloads: text, a to-do's flag, a mention, read-only attributes inside
\* the payload, no member at all
Payloads ==
    { JObj(("rich_text" :> JList(<< Span("10h") >>)) @@ ("color" :> JStr("default"))),
      JObj(("rich_text" :> JList(<< Span("10h") >>)) @@ ("checked" :> JBool(FALSE))),
      JObj(("rich_text" :> JList(<< Span("see "), Mention >>)) @@ ("color" :> JStr("default"))),
      JObj(("rich_text" :> JList(<< >>)) @@ ("id" :> JStr("b-1")) @@ ("archived" :> JBool(FALSE))
           @@ ("has_children" :> JBool(TRUE)) @@ ("created_time" :> JStr("2026-01-01T00:00:00.000Z"))),
      JObj(ServerAssigned @@ ("rich_text" :> JList(<< Span("10h") >>))),
      JObj(NoMembers) }

\* blocks as getPageBlocks returns them, a block whose payload is missing or
\* null, and blocks that carry kind and payload only
Blocks ==
    { JObj(extra @@ ("type" :> JStr(kind)) @@ (kind :> payload)) :
        extra \in {ServerAssigned, NoMembers}, kind \in BlockKinds, payload \in Payloads \cup {JNull} }
    \cup { JObj(extra @@ ("type" :> JStr(kind))) : extra \in {ServerAssigned, NoMembers}, kind \in BlockKinds }

\* blocks.map(sanitizeBlock), one block
CallSanitizeBlock ==
    /\ fnArgs.fn = "sanitizeBlock"
    /\ ~fnResult.done
    /\ fnResult' = [done |-> TRUE, value |-> sanitizeBlock(fnArgs.block), again |-> FALSE]
    /\ UNCHANGED << fnArgs, orchVars, retryVars >>

\* the sanitized block sanitized once more
CallSanitizeAgain ==
    /\ fnArgs.fn = "sanitizeBlock"
    /\ fnResult.done /\ ~fnResult.again
    /\ fnResult' = [done |-> TRUE, value |-> sanitizeBlock(fnResult.value), again |-> TRUE,
                    first |-> fnResult.value]
    /\ UNCHANGED << fnArgs, orchVars, retryVars >>

--------------------------------------------------------------------------
(* notion-client.js: queryDatabase and getPageBlocks, the cursor loop *)

MaxItems == 5

\* how many results the store puts in one response
PageSizes == { 1, 2, 3 }

\* The store's answer to a listing request: the results from the cursor on
\* (from the first one without a cursor), has_more, and the cursor of the
\* next response.
Response(items, size, cursor) ==
    LET start == IF cursor.t = "number" THEN cursor.v ELSE 1
        last == IF start + size - 1 < Len(items) THEN start + size - 1 ELSE Len(items)
    IN [ results |-> SubSeq(items, start, last),
         has_more |-> last < Len(items),
         next_cursor |-> IF last < Len(items) THEN JNum(last + 1) ELSE JNull ]

\* the listing at its start: const pages = []; let cursor;
Listing == [ done |-> FALSE, pages |-> << >>, cursor |-> JUndefined, attempt |-> 1,
             requests |-> << >> ]

\* a loop that gives up on an error and returns the pages it has
listingStep_PartialOnError(l, step, response) ==
    CASE step = "retry" -> [l EXCEPT !.attempt = @ + 1]
      [] step = "return" ->
           LET collected == l.pages \o response.results
               cursor == IF response.has_more THEN response.next_cursor ELSE JUndefined
           IN IF Truthy(cursor)
              THEN [l EXCEPT !.pages = collected, !.cursor = cursor, !.attempt = 1]
              ELSE [done |-> TRUE, state |-> "returned", value |-> collected, requests |-> l.requests]
      [] OTHER -> [done |-> TRUE, state |-> "returned", value |-> l.pages, requests |-> l.requests]

\* One pass of `do { response = await withRetry(...); pages.push(...
\* response.results); cursor = response.has_more ? response.next_cursor :
\* undefined } while (cursor); return pages`, withRetry's request having
\* come to `step`: an error withRetry throws leaves the function, and so
\* does the TypeError of reading .results of the undefined withRetry
\* returns after a third rate limit.
listingStep(l, step, response) ==
    CASE step = "retry" -> [l EXCEPT !.attempt = @ + 1]
      [] step = "return" ->
           LET collected == l.pages \o response.results
               cursor == IF response.has_more THEN response.next_cursor ELSE JUndefined
           IN IF Truthy(cursor)
              THEN [l EXCEPT !.pages = collected, !.cursor = cursor, !.attempt = 1]
              ELSE [done |-> TRUE, state |-> "returned", value |-> collected, requests |-> l.requests]
      [] step = "throw" -> [done |-> TRUE, state |-> "thrown", requests |-> l.requests]
      [] OTHER -> [done |-> TRUE, state |-> "thrown", requests |-> l.requests]

\* one request of queryDatabase or getPageBlocks, with its outcome
ListRequest ==
    /\ fnArgs.fn \in {"queryDatabase", "getPageBlocks"}
    /\ ~fnResult.done
    /\ \E o \in {OK} \cup Errors :
         LET l == [fnResult EXCEPT !.requests = Append(@, [cursor |-> fnResult.cursor,
                                                            att |-> fnResult.attempt])]
         IN fnResult' = listingStep(l, withRetry(l.attempt, o),
                                    Response(fnArgs.items, fnArgs.size, l.cursor))
    /\ UNCHANGED << fnArgs, orchVars, retryVars >>

--------------------------------------------------------------------------
(* Stand-alone: getTargetDatabases over the category x tier cross product *)

JobTypeInputs ==
    { VIDEO, DESIGN, "sonota", "video", "constructor", "toString", "valueOf",
      "hasOwnProperty", "__proto__", "", undefined, null }

LevelInputs == { LEVEL1, LEVEL2, LEVEL3, "level-4", "level1", "", undefined }

NoCall == [fn |-> "none"]
Pending == [done |-> FALSE]

CallGetTargetDatabases ==
    /\ fnArgs.fn = "getTargetDatabases"
    /\ ~fnResult.done
    /\ fnResult' = [done |-> TRUE, value |-> getTargetDatabases(fnArgs.jobType, fnArgs.level)]
    /\ UNCHANGED << fnArgs, orchVars, retryVars >>

--------------------------------------------------------------------------
(* Stand-alone: one call of withRetry(fn), fn's outcomes chosen freely *)

RetryAttempt ==
    /\ rState = "running"
    /\ \E o \in {OK} \cup Errors :
         LET step == withRetry(rAttempt, o) IN
         /\ rInvoked' = rInvoked + 1
         /\ rErrors' = IF o = OK THEN rErrors ELSE Append(rErrors, o)
         /\ rAttempt' = IF step = "retry" THEN rAttempt + 1 ELSE rAttempt
         /\ rState' = CASE step = "retry" -> "running"
                        [] step = "return" -> "returned"
                        [] step = "throw" -> "thrown"
                        [] OTHER -> "fellthrough"
    /\ UNCHANGED << orchVars, fnVars >>

--------------------------------------------------------------------------
(* Specifications *)

InitOrch ==
    /\ pages = << >>
    /\ inv = [p \in Procs |-> Fresh]
    /\ faults = 0
    /\ faultOps = {}
    /\ runs = 0
    /\ edits = 0
    /\ budget = [runs |-> MaxRuns, faults |-> MaxFaults, edits |-> MaxEdits]
    /\ lastSync = NoSync
    /\ quiet = FALSE

InitFn == fnArgs = NoCall /\ fnResult = Pending

InitRetry == rAttempt = 1 /\ rInvoked = 0 /\ rErrors = << >> /\ rState = "running"

Init ==
    /\ master \in { (1 :> a) @@ (2 :> b) : a \in FirstJobs, b \in SecondJobs }
    /\ InitOrch /\ InitFn /\ InitRetry

\* the sequential specification: one invocation, run after run
Sequential == { p \in Procs : \A q \in Procs : p <= q }

Next ==
    \/ \E p \in Sequential : SyncStart(p)
    \/ \E p \in Sequential : SyncList(p)
    \/ \E p \in Sequential : SyncJob(p)
    \/ \E p \in Sequential : SyncBlocks(p)
    \/ \E p \in Sequential : SyncTarget(p)
    \/ \E p \in Sequential : SyncExists(p)
    \/ \E p \in Sequential : SyncCreate(p)
    \/ \E p \in Sequential : CleanupStart(p)
    \/ \E p \in Sequential : CleanupList(p)
    \/ \E p \in Sequential : CleanupJob(p)
    \/ \E p \in Sequential : CleanupTarget(p)
    \/ \E p \in Sequential : CleanupFind(p)
    \/ \E p \in Sequential : CleanupArchive(p)
    \/ \E j \in Jobs : Edit(j)

Spec == Init /\ [][Next]_vars

InitRouting ==
    /\ master = (1 :> Job(OPEN, VIDEO, LEVEL1, TRUE)) @@ (2 :> Job(OPEN, DESIGN, LEVEL2, TRUE))
    /\ InitOrch /\ InitRetry
    /\ fnArgs \in { [fn |-> "getTargetDatabases", jobType |-> ty, level |-> lv] :
                      ty \in JobTypeInputs, lv \in LevelInputs }
    /\ fnResult = Pending

SpecRouting == InitRouting /\ [][CallGetTargetDatabases]_vars

InitWithRetry ==
    /\ master = (1 :> Job(OPEN, VIDEO, LEVEL1, TRUE)) @@ (2 :> Job(OPEN, DESIGN, LEVEL2, TRUE))
    /\ InitOrch /\ InitFn /\ InitRetry

SpecRetry == InitWithRetry /\ [][RetryAttempt]_vars

\* One run against a store that fails up to MaxOutage times: enough for a
\* request to fail on every one of its attempts.
OutageRuns == 1
MaxOutage == 3

OutageFirst ==
    { Job(OPEN, VIDEO, LEVEL2, TRUE), Job(CLOSED, VIDEO, LEVEL3, TRUE),
      Job(OPEN, VIDEO, undefined, TRUE) }

OutageSecond == { Job(OPEN, DESIGN, LEVEL2, TRUE), Job(CLOSED, DESIGN, LEVEL2, TRUE) }

\* the public databases as earlier runs left them: empty, or with the copies
\* of both jobs, the first job's copy in video_level2 created twice
StoresLeft ==
    { << >>,
      << Page("db:video_level2", 0), Page("db:video_level2", 0), Page("db:video_level3", 0),
         Page("db:design_level2", 1), Page("db:design_level3", 1) >> }

InitOutage ==
    /\ master \in { (1 :> a) @@ (2 :> b) : a \in OutageFirst, b \in OutageSecond }
    /\ pages \in StoresLeft
    /\ inv = [p \in Procs |-> Fresh]
    /\ faults = 0
    /\ faultOps = {}
    /\ runs = 0
    /\ edits = 0
    /\ budget = [runs |-> OutageRuns, faults |-> MaxOutage, edits |-> 0]
    /\ lastSync = NoSync
    /\ quiet = FALSE
    /\ InitFn /\ InitRetry

NextOutage ==
    \/ \E p \in Sequential : SyncStart(p)
    \/ \E p \in Sequential : SyncList(p)
    \/ \E p \in Sequential : SyncJob(p)
    \/ \E p \in Sequential : SyncBlocks(p)
    \/ \E p \in Sequential : SyncTarget(p)
    \/ \E p \in Sequential : SyncExists(p)
    \/ \E p \in Sequential : SyncCreate(p)
    \/ \E p \in Sequential : CleanupStart(p)
    \/ \E p \in Sequential : CleanupList(p)
    \/ \E p \in Sequential : CleanupJob(p)
    \/ \E p \in Sequential : CleanupTarget(p)
    \/ \E p \in Sequential : CleanupFind(p)
    \/ \E p \in Sequential : CleanupArchive(p)

SpecOutage == InitOutage /\ [][NextOutage]_vars

\* Two invocations of sync.js at the same time (two scheduled jobs, or a
\* scheduled and a manual one): each is a single thread of awaits, and the
\* store serves their requests in any order. The store never fails here.
ConcurrentRuns == 2

InitConcurrent ==
    /\ master \in { (1 :> a) @@ (2 :> b) : a \in Routable, b \in SecondJobs }
    /\ pages = << >>
    /\ inv = [p \in Procs |-> Fresh]
    /\ faults = 0
    /\ faultOps = {}
    /\ runs = 0
    /\ edits = 0
    /\ budget = [runs |-> ConcurrentRuns, faults |-> 0, edits |-> 0]
    /\ lastSync = NoSync
    /\ quiet = FALSE
    /\ InitFn /\ InitRetry

NextConcurrent ==
    \/ \E p \in Procs : SyncStart(p)
    \/ \E p \in Procs : SyncList(p)
    \/ \E p \in Procs : SyncJob(p)
    \/ \E p \in Procs : SyncBlocks(p)
    \/ \E p \in Procs : SyncTarget(p)
    \/ \E p \in Procs : SyncExists(p)
    \/ \E p \in Procs : SyncCreate(p)

SpecConcurrent == InitConcurrent /\ [][NextConcurrent]_vars

InitMapping ==
    /\ master = (1 :> Job(OPEN, VIDEO, LEVEL1, TRUE)) @@ (2 :> Job(OPEN, DESIGN, LEVEL2, TRUE))
    /\ InitOrch /\ InitRetry
    /\ fnArgs \in { [fn |-> "mapProperties", page |-> pg, copyFields |-> cf] :
                      pg \in SourcePages, cf \in CopyFieldLists }
    /\ fnResult = Pending

SpecMapping == InitMapping /\ [][CallMapProperties]_vars

InitSanitize ==
    /\ master = (1 :> Job(OPEN, VIDEO, LEVEL1, TRUE)) @@ (2 :> Job(OPEN, DESIGN, LEVEL2, TRUE))
    /\ InitOrch /\ InitRetry
    /\ fnArgs \in { [fn |-> "sanitizeBlock", block |-> b] : b \in Blocks }
    /\ fnResult = Pending

SpecSanitize == InitSanitize /\ [][CallSanitizeBlock \/ CallSanitizeAgain]_vars

InitListing ==
    /\ master = (1 :> Job(OPEN, VIDEO, LEVEL1, TRUE)) @@ (2 :> Job(OPEN, DESIGN, LEVEL2, TRUE))
    /\ InitOrch /\ InitRetry
    /\ fnArgs \in { [fn |-> f, items |-> [i \in 1..n |-> 100 + i], size |-> sz] :
                      f \in {"queryDatabase", "getPageBlocks"}, n \in 0..MaxItems, sz \in PageSizes }
    /\ fnResult = Listing

SpecListing == InitListing /\ [][ListRequest]_vars

--------------------------------------------------------------------------
(* Properties *)

Range(f) == { f[i] : i \in DOMAIN f }

\* the non-archived pages of database db that carry number mid
Live(db, mid) ==
    { i \in DOMAIN pages : pages[i].db = db /\ pages[i].masterId = mid /\ ~pages[i].archived }

\* the non-archived pages with number mid, among the pages ps
LiveIn(ps, db, mid) ==
    { i \in DOMAIN ps : ps[i].db = db /\ ps[i].masterId = mid /\ ~ps[i].archived }

MasterIds == { masterIdOf(j) : j \in Jobs }

\* at most one non-archived public record per (collection, masterId)
Unique == \A db \in PublicDbIds, mid \in MasterIds : Cardinality(Live(db, mid)) <= 1

\* the requests of run r with operation op for job j against database db
Requests(r, op, j, db) ==
    { i \in DOMAIN r.calls : r.calls[i].op = op /\ r.calls[i].job = j /\ r.calls[i].db = db }

\* the results run r recorded for job j
Results(r, j) == { i \in DOMAIN r.outcomes : r.outcomes[i].job = j }

\* the routing table of the specification: category x tier -> collections
KnownCategories == { VIDEO, DESIGN }

Prefix(category) == IF category = VIDEO THEN "video" ELSE "design"

Cascade(category, tier) ==
    IF category \notin KnownCategories THEN << >>
    ELSE CASE tier = LEVEL1 -> << DbKey(Prefix(category), 1), DbKey(Prefix(category), 2),
                                  DbKey(Prefix(category), 3) >>
           [] tier = LEVEL2 -> << DbKey(Prefix(category), 2), DbKey(Prefix(category), 3) >>
           [] tier = LEVEL3 -> << DbKey(Prefix(category), 3) >>
           [] OTHER -> << >>

\* the collections the routing table gives master record m
CascadeIds(m) == { dbConfigPublic[k] : k \in Range(Cascade(m.jobType, m.level)) }

\* a master record that lacks category, tier or masterId
Lacks(m) == m.jobType = undefined \/ m.level = undefined \/ ~m.hasId

\* C1: with a store that never fails and runs one after another, every
\* public collection holds at most one non-archived record per masterId.
C1_UniquePerCollection == faults = 0 => Unique

\* C1 witness: a second forward sync found the first one's copy and skipped it
C1_Witness ==
    /\ faults = 0
    /\ \E p \in Procs :
         /\ inv[p].kind = "sync" /\ inv[p].pc = "done"
         /\ \E i \in DOMAIN inv[p].outcomes : inv[p].outcomes[i].what = "skipped"
    /\ \E i \in DOMAIN pages : ~pages[i].archived

\* the failures withRetry retries as transient: timeout, connection
\* refused or reset, status >= 500
TransientCodes ==
    { "ETIMEDOUT", "ECONNRESET", "ECONNREFUSED", "internal_server_error", "service_unavailable" }

\* C2: when the only failures are transient failures of create calls,
\* retried by withRetry, every collection still holds at most one
\* non-archived record per masterId.
C2_NoDuplicateUnderRetry ==
    faultOps \subseteq { << "create", c >> : c \in TransientCodes } => Unique

\* the run is the second of two forward syncs in a row on the same master
\* state, the first having run to its end (exit code 0), the second started
\* with its credential and database ids in place
SecondRun(r) ==
    r.kind = "sync" /\ r.config = "complete" /\ r.prev.valid /\ r.prev.exitCode = 0

CreateCalls(r) == { i \in DOMAIN r.calls : r.calls[i].op = "create" }

SkippedAll(r) ==
    \A pair \in r.prev.created :
        \E i \in DOMAIN r.outcomes :
            r.outcomes[i] = Outcome(pair[1], pair[2], "skipped")

C4_RoutingTable ==
    (fnArgs.fn = "getTargetDatabases" /\ fnResult.done) =>
        fnResult.value = Cascade(fnArgs.jobType, fnArgs.level)

\* the state at the start of run r holds no copy of job j
NoPriorCopies(r, j) == \A db \in PublicDbIds : LiveIn(r.before, db, masterIdOf(j)) = {}

\* C5: every create of a forward sync goes to a collection of the routing
\* table's cascade for its record and carries the record's unique id; an
\* Open, valid record without prior copies gets, in a run without remote
\* failure, exactly one create per collection of its cascade and none elsewhere.
C5_CreatesFollowRouting ==
    \A p \in Procs :
        LET r == inv[p] IN
        r.kind = "sync" =>
            /\ \A i \in CreateCalls(r) :
                 /\ r.calls[i].db \in CascadeIds(r.masterAt[r.calls[i].job])
                 /\ r.calls[i].mid = masterIdOf(r.calls[i].job)
            /\ (r.pc = "done" /\ r.exitCode = 0 /\ r.faults = << >>) =>
                 \A j \in Jobs :
                     (r.masterAt[j].status = OPEN /\ ~Lacks(r.masterAt[j]) /\ NoPriorCopies(r, j)) =>
                         \A db \in PublicDbIds :
                             Cardinality(Requests(r, "create", j, db))
                                 = IF db \in CascadeIds(r.masterAt[j]) THEN 1 ELSE 0

\* C5 witness: a Tier1 video record with no prior copies got exactly 3 creates
C5_Witness ==
    \E p \in Procs :
        LET r == inv[p] IN
        /\ r.kind = "sync" /\ r.pc = "done" /\ r.faults = << >>
        /\ r.masterAt[1].status = OPEN /\ r.masterAt[1].jobType = VIDEO /\ r.masterAt[1].level = LEVEL1
        /\ NoPriorCopies(r, 1)
        /\ Cardinality({ i \in CreateCalls(r) : r.calls[i].job = 1 }) = 3
        /\ Cardinality({ i \in DOMAIN pages : pages[i].masterId = masterIdOf(1) }) = 3

\* C6, in every state of a forward sync: no request is issued for a record
\* that lacks category, tier or masterId; such a record, once passed, has
\* exactly one result, "invalid"; no complete record is counted invalid
\* (masterId 0 is present).
C6_NoRequestForInvalid ==
    \A p \in Procs :
        LET r == inv[p] IN
        r.kind = "sync" =>
            /\ \A i \in DOMAIN r.calls :
                 r.calls[i].job # 0 => ~Lacks(r.masterAt[r.calls[i].job])
            /\ \A i \in DOMAIN r.outcomes :
                 r.outcomes[i].what = "invalid" <=> Lacks(r.masterAt[r.outcomes[i].job])
            /\ \A k \in DOMAIN r.jobs :
                 (k < r.idx /\ Lacks(r.jobs[k])) => Cardinality(Results(r, r.jobs[k].page)) = 1

\* C6, in every step: passing such a record adds exactly one to the error
\* count, changes nothing else, and moves on to the next record.
C6_InvalidStep ==
    \A p \in Procs :
        LET r == inv[p] IN
        (/\ r.kind = "sync" /\ r.pc = "job" /\ r.idx <= Len(r.jobs)
         /\ Lacks(CurJob(r)) /\ inv'[p] # r) =>
            /\ inv'[p].error = r.error + 1
            /\ inv'[p].created = r.created /\ inv'[p].skipped = r.skipped
            /\ inv'[p].calls = r.calls
            /\ inv'[p].idx = r.idx + 1 /\ inv'[p].pc = "job" /\ inv'[p].jobs = r.jobs
            /\ pages' = pages

\* C6: an Open record lacking category, tier or masterId causes no remote
\* call, adds exactly one to the error count, and the run continues with
\* the next record; a masterId of 0 counts as present.
C6_InvalidRecord == []C6_NoRequestForInvalid /\ [][C6_InvalidStep]_vars

\* C6 witness: the first record lacked a field and the run went on to
\* create a copy of the second
C6_Witness ==
    \E p \in Procs :
        LET r == inv[p] IN
        /\ r.kind = "sync" /\ r.pc = "done" /\ r.error = 1
        /\ Lacks(r.masterAt[1]) /\ r.masterAt[1].status = OPEN
        /\ \E i \in CreateCalls(r) : r.calls[i].job = 2

\* a complete record of an unknown category, or one the routing table
\* gives no collection
Unrouted(m) ==
    ~Lacks(m) /\ (m.jobType \notin KnownCategories \/ Cascade(m.jobType, m.level) = << >>)

\* C7: a valid Open record of an unknown category (or with an empty
\* routing result) causes no remote call and is counted once, as skipped,
\* never as an error.
C7_UnknownCategorySkipped ==
    \A p \in Procs :
        LET r == inv[p] IN
        r.kind = "sync" =>
            /\ \A i \in DOMAIN r.calls :
                 r.calls[i].job # 0 => ~Unrouted(r.masterAt[r.calls[i].job])
            /\ \A i \in DOMAIN r.outcomes :
                 Unrouted(r.masterAt[r.outcomes[i].job]) => r.outcomes[i].what = "unrouted"
            /\ \A k \in DOMAIN r.jobs :
                 (k < r.idx /\ Unrouted(r.jobs[k])) => Cardinality(Results(r, r.jobs[k].page)) = 1

\* the pages run r asked the store to archive for job j in database db
Archived(r, j, db) == { r.calls[i].page : i \in Requests(r, "archive", j, db) }

\* C8: a cleanup run without remote failure issues, for each Closed record
\* with a masterId, one existence query per public collection and exactly one
\* archive call per matching document, none where nothing matched.
C8_CleanupFanOut ==
    \A p \in Procs :
        LET r == inv[p] IN
        (r.kind = "cleanup" /\ r.pc = "done" /\ r.exitCode = 0 /\ r.faults = << >>) =>
            /\ \A j \in Jobs :
                 (r.masterAt[j].status = CLOSED /\ r.masterAt[j].hasId) =>
                     \A db \in PublicDbIds :
                         LET matches == LiveIn(r.before, db, masterIdOf(j)) IN
                         /\ Cardinality(Requests(r, "query", j, db)) = 1
                         /\ Archived(r, j, db) = matches
                         /\ Cardinality(Requests(r, "archive", j, db)) = Cardinality(matches)
            /\ r.archived = Cardinality({ i \in DOMAIN r.calls : r.calls[i].op = "archive" })

\* C8 witness: a closed record found in 2 of the 6 collections, 2 archive calls
C8_Witness ==
    \E p \in Procs :
        LET r == inv[p] IN
        /\ r.kind = "cleanup" /\ r.pc = "done" /\ r.faults = << >>
        /\ \E j \in Jobs :
             /\ r.masterAt[j].status = CLOSED /\ r.masterAt[j].hasId
             /\ Cardinality({ db \in PublicDbIds : LiveIn(r.before, db, masterIdOf(j)) # {} }) = 2
             /\ Cardinality({ i \in DOMAIN r.calls : r.calls[i].op = "archive" /\ r.calls[i].job = j }) = 2

\* C9: after a cleanup run that completed with every remote call
\* succeeding, no non-archived public record of a Closed master record
\* remains in any of the six collections.
C9_Retracted ==
    \A p \in Procs :
        LET r == inv[p] IN
        (r.kind = "cleanup" /\ r.pc = "done" /\ r.exitCode = 0 /\ r.faults = << >>) =>
            \A j \in Jobs :
                (r.masterAt[j].status = CLOSED /\ r.masterAt[j].hasId) =>
                    \A db \in PublicDbIds : Live(db, masterIdOf(j)) = {}

\* C9 witness: copies retracted from a collection the record's current
\* category and tier no longer route to
C9_Witness ==
    \E p \in Procs :
        LET r == inv[p] IN
        /\ r.kind = "cleanup" /\ r.pc = "done" /\ r.faults = << >>
        /\ \E j \in Jobs :
             /\ r.masterAt[j].status = CLOSED /\ r.masterAt[j].hasId
             /\ \E i \in DOMAIN pages :
                  /\ pages[i].masterId = masterIdOf(j) /\ pages[i].archived
                  /\ ~r.before[i].archived
                  /\ pages[i].db \notin CascadeIds(r.masterAt[j])

\* an error withRetry must not retry: no rate limit, not transient
NonRetryable(e) == e.code # "rate_limited" /\ e.code \notin TransientCodes

\* C10: withRetry invokes fn at most 3 times and then has ended; an error
\* that is not retryable ends the call at its first occurrence.
C10_AtMostThreeAttempts ==
    /\ rInvoked <= 3
    /\ rInvoked = 3 => rState # "running"
    /\ \A i \in DOMAIN rErrors :
         NonRetryable(rErrors[i]) => (i = Len(rErrors) /\ rInvoked = i /\ rState = "thrown")

\* C10 witness: three invocations, the third one failing too
C10_Witness == rInvoked = 3 /\ Len(rErrors) = 3 /\ rState = "thrown"

\* C11: a withRetry call none of whose invocations of fn succeeded ends by
\* throwing, whatever the errors were (not retryable, rate limit or transient
\* on every attempt); it returns only after an invocation that succeeded.
C11_FailureRaises ==
    /\ (rState # "running" /\ Len(rErrors) = rInvoked) => rState = "thrown"
    /\ rState = "returned" => Len(rErrors) < rInvoked

\* the run ended at its listing: the listing request failed and the loop
\* over the records was never entered
ListingFailed(r) ==
    /\ r.idx = 0 /\ r.jobs = << >> /\ r.outcomes = << >>
    /\ r.faults # << >>
    /\ \A i \in DOMAIN r.calls : r.calls[i].op = "query" /\ r.calls[i].db = MasterDb

\* the results of run r of kind what
ResultsOf(r, what) == { i \in DOMAIN r.outcomes : r.outcomes[i].what = what }

\* C12: a run's exit code is non-zero only when the credential or a
\* database id is missing or the master listing failed; once the loop over
\* the records is entered the exit code stays zero, whatever fails, and the
\* run ends only after the last record of the listing.
C12_ExitCode ==
    \A p \in Procs :
        LET r == inv[p] IN
        r.kind # "none" =>
            /\ r.exitCode # 0 => (r.pc = "done" /\ (r.config # "complete" \/ ListingFailed(r)))
            /\ (r.pc = "done" /\ r.jobs # << >>) =>
                 (r.exitCode = 0 /\ r.idx = Len(r.jobs) + 1)
            /\ r.config # "complete" => (r.calls = << >> /\ r.pc = "done")

\* C12 witness: a run that counted a validation error and a request failing
\* on all three attempts, went on to the next target and ended with exit code 0
C12_Witness ==
    \E p \in Procs :
        LET r == inv[p] IN
        /\ r.kind = "sync" /\ r.pc = "done" /\ r.exitCode = 0
        /\ ResultsOf(r, "invalid") # {} /\ ResultsOf(r, "error") # {}
        /\ \E i \in DOMAIN r.calls : r.calls[i].att = 3 /\ r.calls[i].db \in PublicDbIds
        /\ Len(r.faults) = 3
        /\ ResultsOf(r, "created") # {}

\* the master database held no Open record when run r started
NoOpenRecord(r) == \A j \in Jobs : r.masterAt[j].status # OPEN

\* C13: a forward sync that finds no Open record issues no request but the
\* listing query, changes no public database, counts nothing, and (its
\* listing obtained) ends with exit code 0.
C13_NothingOpen ==
    \A p \in Procs :
        LET r == inv[p] IN
        (r.kind = "sync" /\ r.config = "complete" /\ NoOpenRecord(r)) =>
            /\ \A i \in DOMAIN r.calls : r.calls[i].op = "query" /\ r.calls[i].db = MasterDb
            /\ r.created = 0 /\ r.skipped = 0 /\ r.error = 0 /\ r.outcomes = << >>
            /\ r.pc \in {"list", "done"}
            /\ (r.pc = "done" /\ ~ListingFailed(r)) => r.exitCode = 0
            /\ pages = r.before

\* C13 witness: such a run, ended after its one listing query, with copies
\* of earlier runs in the public databases
C13_Witness ==
    \E p \in Procs :
        LET r == inv[p] IN
        /\ r.kind = "sync" /\ r.config = "complete" /\ NoOpenRecord(r)
        /\ r.pc = "done" /\ r.exitCode = 0 /\ Len(r.calls) = 1
        /\ pages # << >>

\* C14: every request of a run but its first is issued at least
\* API_INTERVAL_MS after the request before it completed, whether that
\* request succeeded, was retried or failed for good.
C14_MinimumSpacing ==
    \A p \in Procs :
        \A i \in DOMAIN inv[p].calls :
            i > 1 => inv[p].calls[i].gap >= API_INTERVAL_MS

\* The type transform table of the specification: the shape written for a
\* source property of each type.
PassThroughTypes == { "number", "date", "url", "email", "phone_number", "checkbox" }

NoSpans == JList(<< >>)

Shape(prop) ==
    LET ty == prop.v["type"].v
        value == prop.v[ty]
    IN IF ty \in PassThroughTypes THEN JObj(ty :> value)
       ELSE IF ty = "select"
            THEN JObj("select" :> IF value = JNull THEN JNull
                                  ELSE JObj("name" :> value.v["name"]))
       ELSE IF ty = "multi_select"
            THEN JObj("multi_select" :>
                      JList([i \in 1..Len(value.v) |-> JObj("name" :> value.v[i].v["name"])]))
       ELSE IF ty = "rich_text" THEN JObj("rich_text" :> value)
       ELSE JObj("rich_text" :> NoSpans)

\* the call of mapProperties has returned
Mapped == fnArgs.fn = "mapProperties" /\ fnResult.done

SourceProps == fnArgs.page.v["properties"].v

Listed == Range(fnArgs.copyFields)

\* every listed field the source has, the two reserved names aside, is
\* written in the shape of its type; no field that is not listed is written
FieldsMapped ==
    LET out == fnResult.value.v IN
    /\ \A f \in (Listed \cap DOMAIN SourceProps) \ {TITLE_FIELD, DETAIL_FIELD} :
         f \in DOMAIN out /\ out[f] = Shape(SourceProps[f])
    /\ DOMAIN out \subseteq (Listed \ {DETAIL_FIELD}) \cup {TITLE_FIELD, BACKREF_FIELD}

\* the title the source has is copied, the back-reference made of its id
TitleAndIdCopied ==
    LET out == fnResult.value.v IN
    /\ TITLE_FIELD \in DOMAIN SourceProps =>
         (TITLE_FIELD \in DOMAIN out
          /\ out[TITLE_FIELD] = JObj("title" :> SourceProps[TITLE_FIELD].v["title"]))
    /\ ID_FIELD \in DOMAIN SourceProps =>
         (BACKREF_FIELD \in DOMAIN out
          /\ out[BACKREF_FIELD] = JObj("number" :> SourceProps[ID_FIELD].v["unique_id"].v["number"]))

\* C15 as stated: the listed fields are mapped by the table, unlisted ones
\* never appear, and the title and the masterId back-reference are in the
\* output of every call.
C15_ReferenceMapping ==
    Mapped =>
        /\ FieldsMapped
        /\ TitleAndIdCopied
        /\ {TITLE_FIELD, BACKREF_FIELD} \subseteq DOMAIN fnResult.value.v

\* C15 amended: the title is in the output exactly when the source page has
\* the title property, the back-reference exactly when it has a unique id.
C15_MappingOfPresentFields ==
    Mapped =>
        /\ FieldsMapped
        /\ TitleAndIdCopied
        /\ TITLE_FIELD \in DOMAIN fnResult.value.v <=> TITLE_FIELD \in DOMAIN SourceProps
        /\ BACKREF_FIELD \in DOMAIN fnResult.value.v <=> ID_FIELD \in DOMAIN SourceProps

\* C15 witness: a select without a selection written as an explicit null,
\* next to the title and the back-reference 0; 'タグ' and status, not listed,
\* left out
C15_Witness ==
    /\ Mapped
    /\ fnArgs.copyFields = << "category" >>
    /\ DOMAIN fnResult.value.v = {"category", TITLE_FIELD, BACKREF_FIELD}
    /\ fnResult.value.v["category"] = JObj("select" :> JNull)
    /\ fnResult.value.v[BACKREF_FIELD] = JObj("number" :> JNum(0))

RECURSIVE HasReadOnly(_)
\* a read-only attribute is a member of j, or of a value inside j
HasReadOnly(j) ==
    IF j.t = "object"
    THEN \E k \in DOMAIN j.v : k \in ReadOnlyKeys \/ HasReadOnly(j.v[k])
    ELSE IF j.t = "array" THEN \E i \in DOMAIN j.v : HasReadOnly(j.v[i])
    ELSE FALSE

\* sanitizeBlock has returned
Sanitized == fnArgs.fn = "sanitizeBlock" /\ fnResult.done

\* the block the last call was given
SanitizeInput == IF fnResult.again THEN fnResult.first ELSE fnArgs.block

\* the result has the input's kind tag and, under it, the input's payload
\* without the read-only members (no member at all when the input has no
\* payload), and nothing else; a second pass changes nothing
KindAndPayloadKept ==
    LET block == SanitizeInput.v
        kind == block["type"].v
        out == fnResult.value.v
    IN /\ DOMAIN out = {"type", kind}
       /\ out["type"] = block["type"]
       /\ out[kind] = IF kind \in DOMAIN block /\ block[kind] # JNull
                      THEN JObj([k \in DOMAIN block[kind].v \ ReadOnlyKeys |-> block[kind].v[k]])
                      ELSE JObj(NoMembers)
       /\ fnResult.again => fnResult.value = fnResult.first

\* C16 as stated: no read-only attribute at any level of the result; kind
\* tag and remaining payload kept; empty payload for an absent one;
\* sanitizing twice is sanitizing once.
C16_NoReadOnlyAnywhere ==
    Sanitized => (KindAndPayloadKept /\ ~HasReadOnly(fnResult.value))

\* C16 amended: no read-only attribute among the members of the result nor
\* among the members of its payload; what lies deeper in the payload (the
\* page id of a mention) is kept as it is.
C16_NoReadOnlyMember ==
    Sanitized =>
        /\ KindAndPayloadKept
        /\ DOMAIN fnResult.value.v \cap ReadOnlyKeys = {}
        /\ \A k \in DOMAIN fnResult.value.v :
             fnResult.value.v[k].t = "object" =>
                 DOMAIN fnResult.value.v[k].v \cap ReadOnlyKeys = {}

\* C16 witness: a block with the store's attributes on the block and inside
\* the payload, sanitized twice, is left with its kind and its text
C16_Witness ==
    /\ Sanitized /\ fnResult.again
    /\ DOMAIN ServerAssigned \subseteq DOMAIN fnArgs.block.v
    /\ fnArgs.block.v["type"] = JStr("paragraph")
    /\ "paragraph" \in DOMAIN fnArgs.block.v
    /\ fnArgs.block.v["paragraph"].t = "object"
    /\ {"id", "created_time", "has_children", "archived"}
           \subseteq DOMAIN fnArgs.block.v["paragraph"].v
    /\ fnResult.value =
         JObj(("type" :> JStr("paragraph"))
              @@ ("paragraph" :> JObj("rich_text" :> JList(<< >>))))

\* the requests of run r that failed for good: failed, and no retry of
\* them followed (a retry has attempt number 2 or 3)
FinalFailures(r) ==
    { i \in DOMAIN r.calls :
        /\ r.calls[i].res # "ok"
        /\ i < Len(r.calls) => r.calls[i + 1].att = 1 }

\* those of them for job j against public database db
PairFailures(r, j, db) ==
    { i \in FinalFailures(r) :
        /\ r.calls[i].job = j /\ r.calls[i].db = db
        /\ r.calls[i].op \in {"query", "create", "archive"} }

\* run r's listing, as the jobs it numbers
Listed1(r) == { r.jobs[k].page : k \in DOMAIN r.jobs }

\* the collections run r has to visit for job j
ToVisit(r, j) ==
    IF r.kind = "cleanup"
    THEN (IF r.masterAt[j].hasId THEN PublicDbIds ELSE {})
    ELSE (IF Lacks(r.masterAt[j]) THEN {} ELSE CascadeIds(r.masterAt[j]))

\* C17: in a run that went through its listing, every (record, collection)
\* pair whose existence query, create or archive failed for good has
\* exactly one error counted for it, pairs without such a failure have
\* none, and the existence query of every collection of every listed record
\* was issued.
C17_FailureIsolated ==
    \A p \in Procs :
        LET r == inv[p] IN
        (r.kind # "none" /\ r.pc = "done" /\ r.jobs # << >>) =>
            /\ \A j \in Listed1(r), db \in PublicDbIds :
                 Cardinality({ i \in ResultsOf(r, "error") :
                                 r.outcomes[i].job = j /\ r.outcomes[i].db = db })
                   = Cardinality(PairFailures(r, j, db))
            /\ \A j \in Listed1(r) : \A db \in ToVisit(r, j) : Requests(r, "query", j, db) # {}

\* run r's existence query for job j in database db was answered
Answered(r, j, db) == \E i \in Requests(r, "query", j, db) : r.calls[i].res = "ok"

\* C18: at the end of a cleanup run every document an existence query
\* returned has received an archive call, every one of several matches in
\* one collection, also after the archive call for an earlier match failed.
C18_EveryMatchArchived ==
    \A p \in Procs :
        LET r == inv[p] IN
        (r.kind = "cleanup" /\ r.pc = "done" /\ r.jobs # << >>) =>
            \A j \in Listed1(r), db \in PublicDbIds :
                Answered(r, j, db) => LiveIn(r.before, db, masterIdOf(j)) \subseteq Archived(r, j, db)

\* the documents for which an archive request of run r was answered with
\* success
ArchiveSucceeded(r) ==
    { r.calls[i].page : i \in { k \in DOMAIN r.calls :
                                  r.calls[k].op = "archive" /\ r.calls[k].res = "ok" } }

\* the documents whose last archive request of run r failed
ArchiveFailed(r) ==
    { r.calls[i].page : i \in { k \in FinalFailures(r) : r.calls[k].op = "archive" } }

\* C19: at the end of a cleanup run the archived count is the number of
\* documents whose archive request succeeded, each of them archived in the
\* store; a document whose archive request failed on its last attempt, rate
\* limits included, has an error counted for its collection.
C19_ArchivedCount ==
    \A p \in Procs :
        LET r == inv[p] IN
        (r.kind = "cleanup" /\ r.pc = "done") =>
            /\ r.archived = Cardinality(ArchiveSucceeded(r))
            /\ \A d \in ArchiveSucceeded(r) : pages[d].archived
            /\ \A d \in ArchiveFailed(r) :
                 \E i \in ResultsOf(r, "error") : r.outcomes[i].db = pages[d].db

\* a listing operation is under way or has ended
Listing1 == fnArgs.fn \in {"queryDatabase", "getPageBlocks"}

\* the position in the store's list a request's cursor stands for
PositionOf(cursor) == IF cursor.t = "number" THEN cursor.v ELSE 1

\* the first positions of the store's pages: 1, 1 + size, 1 + 2 size, ...
PageStarts(n, size) == { 1 } \cup { s \in 2..n : (s - 1) % size = 0 }

\* the requests were made page after page, each page's attempts numbered
\* 1, 2, 3 without a gap, and a new page begun only at the store's cursor
OnePassPerPage(requests, size) ==
    /\ requests # << >> => (requests[1].cursor = JUndefined /\ requests[1].att = 1)
    /\ \A i \in 2..Len(requests) :
         \/ /\ requests[i].cursor = requests[i - 1].cursor
            /\ requests[i].att = requests[i - 1].att + 1
            /\ requests[i].att <= MAX_RETRIES
         \/ /\ PositionOf(requests[i].cursor) = PositionOf(requests[i - 1].cursor) + size
            /\ requests[i].att = 1

\* C20: the listing follows the cursor to the store's last page and returns
\* all pages' results in page order, one request sequence per page; when a
\* page's request fails for good the operation ends in an error and returns
\* nothing, the pages already fetched included.
C20_WholeListingOrError ==
    Listing1 =>
        /\ OnePassPerPage(fnResult.requests, fnArgs.size)
        /\ fnResult.done =>
             \/ /\ fnResult.state = "returned"
                /\ fnResult.value = fnArgs.items
                /\ { PositionOf(fnResult.requests[i].cursor) : i \in DOMAIN fnResult.requests }
                     = PageStarts(Len(fnArgs.items), fnArgs.size)
             \/ /\ fnResult.state = "thrown"
                /\ "value" \notin DOMAIN fnResult
        /\ ~fnResult.done => "value" \notin DOMAIN fnResult

\* C20 witness: five results listed in three pages, one request retried
C20_Witness ==
    /\ Listing1 /\ fnResult.done /\ fnResult.state = "returned"
    /\ Len(fnResult.value) = 5 /\ fnArgs.size = 2
    /\ Len(fnResult.requests) = 4


\* the requests a forward sync may issue, and those a cleanup may issue
SyncOps == { "query", "blocks", "create" }

CleanupOps == { "query", "archive" }

\* request i of run r is an archive of a page that a query of a public
\* database, issued earlier in the run for the same master record, returned
ArchivesQueried(r, i) ==
    \E k \in 1..(i - 1) :
        /\ r.calls[k].op = "query" /\ r.calls[k].res = OK.code
        /\ r.calls[k].db \in PublicDbIds
        /\ r.calls[k].db = r.calls[i].db /\ r.calls[k].job = r.calls[i].job
        /\ r.calls[i].page \in DOMAIN pages
        /\ pages[r.calls[i].page].db = r.calls[k].db
        /\ pages[r.calls[i].page].masterId = r.calls[k].mid

\* what the requests of run r are, by the kind of the run
LogFrame(r) ==
    \A i \in DOMAIN r.calls :
        /\ r.kind = "sync" =>
             /\ r.calls[i].op \in SyncOps
             /\ r.calls[i].op = "create" => r.calls[i].db \in PublicDbIds
        /\ r.kind = "cleanup" =>
             /\ r.calls[i].op \in CleanupOps
             /\ r.calls[i].op = "archive" => ArchivesQueried(r, i)

\* run p has issued one more request in this step
Issued(p, op) ==
    /\ inv'[p].kind = inv[p].kind
    /\ Len(inv'[p].calls) = Len(inv[p].calls) + 1
    /\ inv'[p].calls[Len(inv'[p].calls)].op = op

\* one step's effect on the store: the master database changes only when no
\* run takes the step, an existing public record keeps its database and
\* its number, it is archived only by a cleanup's archive request for it and
\* never restored, and a record is added only to a public database by a
\* forward sync's create request
StoreFrame ==
    /\ master' # master => inv' = inv
    /\ Len(pages') >= Len(pages)
    /\ \A i \in DOMAIN pages :
         /\ pages'[i].db = pages[i].db
         /\ pages'[i].masterId = pages[i].masterId
         /\ pages[i].archived => pages'[i].archived
         /\ pages'[i].archived # pages[i].archived =>
              \E p \in Procs : /\ inv[p].kind = "cleanup" /\ Issued(p, "archive")
                               /\ inv'[p].calls[Len(inv'[p].calls)].page = i
    /\ \A i \in DOMAIN pages' \ DOMAIN pages :
         /\ pages'[i].db \in PublicDbIds
         /\ ~pages'[i].archived
         /\ Len(pages') = Len(pages) + 1
         /\ \E p \in Procs : /\ inv[p].kind = "sync" /\ Issued(p, "create")
                             /\ inv'[p].calls[Len(inv'[p].calls)].db = pages'[i].db

\* C21: a forward sync issues only queries, content listings and creates,
\* every create into a public database; a cleanup issues only queries and
\* archives, every archive of a page a public-database query returned; no
\* run changes the master database or the fields of an existing public
\* record.
C21_Frame ==
    /\ [](\A p \in Procs : LogFrame(inv[p]))
    /\ [][StoreFrame]_vars

\* C21 witness: after a forward sync that created records, a cleanup run
\* has archived one of them
C21_Witness ==
    /\ lastSync.valid /\ lastSync.created # {}
    /\ \E p \in Procs :
         /\ inv[p].kind = "cleanup" /\ inv[p].pc = "done" /\ inv[p].archived > 0
         /\ \E i \in DOMAIN inv[p].calls : inv[p].calls[i].op = "archive"
    /\ \E i \in DOMAIN pages : pages[i].archived


\* C22: with two forward syncs running at the same time and a store that
\* never fails, the existence check before each create still leaves at
\* most one non-archived public record per (collection, masterId).
C22_UniqueUnderConcurrency ==
    (faults = 0 /\ \A p \in Procs : inv[p].kind \in {"none", "sync"}) => Unique


\* a forward sync that obtained a non-empty listing and has ended
TallyRun(r) == r.kind = "sync" /\ r.pc = "done" /\ r.jobs # << >>

\* what one listed record owes the tally: one for a record that fails the
\* validation or that the routing gives no collection, else one per target
Owed(job) ==
    IF dataInvalid(job) THEN 1
    ELSE IF Len(getTargetDatabases(job.jobType, job.level)) = 0 THEN 1
    ELSE Len(getTargetDatabases(job.jobType, job.level))

RECURSIVE OwedFrom(_, _)
OwedFrom(jobs, i) == IF i > Len(jobs) THEN 0 ELSE Owed(jobs[i]) + OwedFrom(jobs, i + 1)

\* the results run r recorded of the kinds in `whats`
Tallied(r, whats) == Cardinality({ i \in DOMAIN r.outcomes : r.outcomes[i].what \in whats })

\* the k-th result of run r for its i-th record is the one of the record's
\* k-th target, or the record's only one
OnePerPair(r) ==
    \A i \in DOMAIN r.jobs :
        LET job == r.jobs[i]
            targetDbKeys == getTargetDatabases(job.jobType, job.level)
            mine == { k \in DOMAIN r.outcomes : r.outcomes[k].job = job.page }
        IN /\ Cardinality(mine) = Owed(job)
           /\ dataInvalid(job) => \A k \in mine : r.outcomes[k].what = "invalid"
           /\ (~dataInvalid(job) /\ Len(targetDbKeys) = 0) =>
                \A k \in mine : r.outcomes[k].what = "unrouted"
           /\ (~dataInvalid(job) /\ Len(targetDbKeys) > 0) =>
                \A n \in DOMAIN targetDbKeys :
                    LET db == IF Falsy(publicDbId(targetDbKeys[n])) THEN targetDbKeys[n]
                              ELSE publicDbId(targetDbKeys[n])
                    IN Cardinality({ k \in mine : r.outcomes[k].db = db
                                       /\ r.outcomes[k].what \in
                                            {"created", "skipped", "error", "unconfigured"} }) = 1

\* C23: at the end of a forward sync that obtained a non-empty listing,
\* created + skipped + error is the number of records failing validation
\* plus the number of valid records without a target plus the number of
\* (record, target) pairs of the others, and each of these was counted by
\* exactly one counter, once, whatever the store answered.
C23_TallyConserved ==
    \A p \in Procs :
        TallyRun(inv[p]) =>
            /\ inv[p].created + inv[p].skipped + inv[p].error = OwedFrom(inv[p].jobs, 1)
            /\ inv[p].created = Tallied(inv[p], {"created"})
            /\ inv[p].skipped = Tallied(inv[p], {"skipped", "unrouted"})
            /\ inv[p].error = Tallied(inv[p], {"error", "unconfigured", "invalid"})
            /\ OnePerPair(inv[p])

\* C23 witness: a run has ended with something created, something skipped
\* and something counted as an error after a store failure
C23_Witness ==
    \E p \in Procs :
        /\ TallyRun(inv[p])
        /\ inv[p].created > 0 /\ inv[p].skipped > 0 /\ inv[p].error > 0
        /\ inv[p].faults # << >>

==========================================================================
